---- MODULE Spec2Model ----
(***************************************************************************)
(* A model of the robottelo UI page-object layer and of the test cases     *)
(* that drive it.                                                          *)
(*                                                                         *)
(*   Spec     the Environment page object (robottelo/ui/environment.py):   *)
(*            create, update, search, delete as sequences of Base calls.   *)
(*   SpecUI   the UI / CLI test cases as sequential programs run by        *)
(*            unittest: Session blocks, data loops, subTest blocks.        *)
(*   SpecFix  the class-level fixtures (shared organization) of the CLI    *)
(*            and API test classes.                                        *)
(*   SpecAPI  the API / CLI test cases as sequences of product calls and   *)
(*            assertions on what the product answers.                      *)
(*                                                                         *)
(* The browser, the product behind it and the CLI are black boxes: what    *)
(* they answer (element present or not, call raised or not) is an input    *)
(* of the action that asks.                                                *)
(***************************************************************************)
EXTENDS Naturals, Sequences, FiniteSets

VARIABLES
    page,      \* the page the page object last opened in the browser
    call,      \* the last page-object call: operation, arguments, answers
    log,       \* the Base / Navigator calls that call made, in order
    ret,       \* what the call returned
    utest,     \* the test case being run ("none" between test cases)
    upc,       \* the position of the running test case
    iter,      \* the data-loop iteration the test case is in
    pos,       \* the last statement of the body that was executed
    session,   \* lifecycle of the Session of the running test case
    last,      \* the last statement executed, and how it ended
    subFails,  \* failures recorded by subTest blocks of the running test
    verdict,   \* how the last finished test case ended
    ulog,      \* the statements of the current pass and what they returned
    fixture,   \* the class attribute org of each test class (0: None)
    orgCalls,  \* organization-creating calls made for each class fixture
    orgMade,   \* organizations created for each class fixture
    nextOrg,   \* the id the product gives the next organization
    frun,      \* the test method whose setUp / body is running
    seenOrg,   \* the organizations test bodies of each class observed
    entered,   \* the test classes whose tests were started
    runs,      \* test executions so far
    attrs,     \* class attributes lce, repo, content_view, cvv (0: not set)
    proxyAttrs,\* class attribute smart_proxy_attrs of MissingAttrTestCase
    localOrg,  \* the local variable org of the running test (0: unbound)
    seenAttrs, \* the lce, repo, content_view, cvv test bodies observed
    seenProxy, \* the smart_proxy_attrs test bodies observed
    proxyRun,  \* the last test of MissingAttrTestCase run, and how it ended
    atest,     \* the API / CLI test case being run, with its random draws
    apc,       \* how many statements of its program were executed
    astat,     \* "idle", "running", or how the test case ended
    afails,    \* failures recorded by subTest blocks of the running test
    alog       \* the product calls made, what they answered, how they ended

envVars == <<page, call, log, ret>>
uiVars  == <<utest, upc, iter, pos, session, last, subFails, verdict, ulog>>
attrVars == <<attrs, proxyAttrs, localOrg, seenAttrs, seenProxy, proxyRun>>
fixVars == <<fixture, orgCalls, orgMade, nextOrg, frun, seenOrg, entered, runs,
             attrVars>>
apiVars == <<atest, apc, astat, afails, alog>>
vars    == <<envVars, uiVars, fixVars, apiVars>>

----------------------------------------------------------------------------
(* Bounds of the model.                                                    *)

MaxNameLen == 31

(* len(name) <= 30 in Environment.search.                                  *)
NAME_THRESHOLD == 30

----------------------------------------------------------------------------
(* Python values.                                                          *)

\* A string of n characters c.
Str(c, n) == [i \in 1..n |-> c]

\* None, and a value that is not None (a string or a list, as a sequence).
None == [isNone |-> TRUE, v |-> <<>>]
Some(s) == [isNone |-> FALSE, v |-> s]

\* Python truth of a string, a list or None: None and the empty ones are false.
Truthy(x) == ~x.isNone /\ Len(x.v) > 0

\* A keyword argument with a default: omitted, or given with a value.
Omitted == [given |-> FALSE, value |-> FALSE]
Given(b) == [given |-> TRUE, value |-> b]
Default(arg, dflt) == IF arg.given THEN arg.value ELSE dflt

\* A located element; NoElement is the absence signal (None).
NoElement == [found |-> FALSE, name |-> <<>>, locator |-> "none"]
Element(name, locator) == [found |-> TRUE, name |-> name, locator |-> locator]

\* Names: the empty one, and those around the threshold of search.
NameLens == {0} \cup (NAME_THRESHOLD..MaxNameLen)
Names == {Str("a", n) : n \in NameLens}
OrgArgs == {None, Some(<<>>), Some(<<"org1">>)}
NewOrgArgs == {None, Some(<<"org2">>)}
NewNameArgs == {None, Some(Str("b", 0)), Some(Str("b", 1))}
BoolArgs == {Omitted, Given(TRUE), Given(FALSE)}
Pages == {"dashboard", "environments", "environment_new", "environment_edit"}

----------------------------------------------------------------------------
(* Base and Navigator: the calls the page object makes, as events.         *)

Ev(act, loc, text) ==
    [act |-> act, loc |-> loc, text |-> text, list |-> None, new_list |-> None,
     flag |-> FALSE, tab |-> "", loc2 |-> "", loc3 |-> ""]

Click(loc) == Ev("click", loc, <<>>)
WaitUntilElement(loc) == Ev("wait_until_element", loc, <<>>)
SendKeys(loc, text) == Ev("send_keys", loc, text)
FieldUpdate(loc, text) == Ev("field_update", loc, text)
ElementClick(el) == Ev("element_click", el.locator, el.name)

ConfigureEntity(list, filter, tab, new_list, select) ==
    [act |-> "configure_entity", loc |-> filter, text |-> <<>>, list |-> list,
     new_list |-> new_list, flag |-> select, tab |-> tab, loc2 |-> "",
     loc3 |-> ""]

DeleteEntity(name, really, name_loc, del_loc, drop_loc) ==
    [act |-> "delete_entity", loc |-> name_loc, text |-> name, list |-> None,
     new_list |-> None, flag |-> really, tab |-> "", loc2 |-> del_loc,
     loc3 |-> drop_loc]

\* search_entity answers with the element it located, or with None.
SearchEntity(name, loc, present) ==
    IF present THEN Element(name, loc) ELSE NoElement

SearchEntityEv(name, loc) == Ev("search_entity", loc, name)

\* Navigator: one destination, one fixed sequence of menu clicks.
NavClicks(dest) ==
    IF dest = "environments"
    THEN <<Click("menu.configure"), Click("menu.environments")>>
    ELSE <<Click(dest)>>

----------------------------------------------------------------------------
(* Environment: each method as the calls it makes, what it returns and the *)
(* page it leaves open.  present: search_entity located the entity;        *)
(* field: wait_until_element found the name field.                         *)

Done(l, r, p) == [log |-> l, ret |-> r, page |-> p]

\* The locator Environment.search hands to search_entity.
SearchLocatorLe(name) ==
    IF Len(name) < NAME_THRESHOLD
    THEN "env.env_name"
    ELSE "common.select_filtered_entity"

SearchLocator(name) ==
    IF Len(name) <= NAME_THRESHOLD
    THEN "env.env_name"
    ELSE "common.select_filtered_entity"

SearchNoNavigate(name, present) ==
    Done(<<SearchEntityEv(name, SearchLocator(name))>>
             \o NavClicks("environments"),
         SearchEntity(name, SearchLocator(name), present),
         "environments")

search(name, present) ==
    Done(NavClicks("environments")
             \o <<SearchEntityEv(name, SearchLocator(name))>>,
         SearchEntity(name, SearchLocator(name), present),
         "environments")

CreateAlwaysConfigures(name, orgs, org_select, field) ==
    Done(<<Click("env.new"), WaitUntilElement("env.name")>>
             \o (IF field THEN <<SendKeys("env.name", name)>> ELSE <<>>)
             \o <<ConfigureEntity(orgs, "env_org", "tab_org", None,
                                  Default(org_select, TRUE))>>
             \o <<Click("common.submit")>>,
         NoElement,
         "environment_new")

create(name, orgs, org_select, field) ==
    Done(<<Click("env.new"), WaitUntilElement("env.name")>>
             \o (IF field THEN <<SendKeys("env.name", name)>> ELSE <<>>)
             \o (IF Truthy(orgs)
                 THEN <<ConfigureEntity(orgs, "env_org", "tab_org", None,
                                        Default(org_select, TRUE))>>
                 ELSE <<>>)
             \o <<Click("common.submit")>>,
         NoElement,
         "environment_new")

UpdateUnguarded(old_name, orgs, new_orgs, new_name, org_select, present, field) ==
    LET s == search(old_name, present)
    IN  Done(s.log
                 \o <<WaitUntilElement("env.name")>>
                 \o (IF field /\ Truthy(new_name)
                     THEN <<FieldUpdate("env.name", new_name.v)>>
                     ELSE <<>>)
                 \o <<ConfigureEntity(orgs, "env_org", "tab_org", new_orgs,
                                      Default(org_select, FALSE))>>
                 \o <<Click("common.submit")>>,
             NoElement,
             "environment_edit")

UpdateSubmitFirst(old_name, orgs, new_orgs, new_name, org_select, present, field) ==
    LET s == search(old_name, present)
    IN  IF s.ret.found
        THEN Done(s.log
                      \o <<ElementClick(s.ret), Click("common.submit"),
                           WaitUntilElement("env.name")>>
                      \o (IF field /\ Truthy(new_name)
                          THEN <<FieldUpdate("env.name", new_name.v)>>
                          ELSE <<>>)
                      \o <<ConfigureEntity(orgs, "env_org", "tab_org", new_orgs,
                                           Default(org_select, FALSE))>>,
                  NoElement,
                  "environment_edit")
        ELSE Done(s.log, NoElement, s.page)

update(old_name, orgs, new_orgs, new_name, org_select, present, field) ==
    LET s == search(old_name, present)
    IN  IF s.ret.found
        THEN Done(s.log
                      \o <<ElementClick(s.ret), WaitUntilElement("env.name")>>
                      \o (IF field /\ Truthy(new_name)
                          THEN <<FieldUpdate("env.name", new_name.v)>>
                          ELSE <<>>)
                      \o <<ConfigureEntity(orgs, "env_org", "tab_org", new_orgs,
                                           Default(org_select, FALSE))>>
                      \o <<Click("common.submit")>>,
                  NoElement,
                  "environment_edit")
        ELSE Done(s.log, NoElement, s.page)

DeleteBySearchLocator(name, really, from) ==
    Done(<<DeleteEntity(name, Default(really, TRUE), SearchLocator(name),
                        "env.delete", "env.dropdown")>>,
         NoElement,
         from)

DeleteAlwaysConfirm(name, really, from) ==
    Done(<<DeleteEntity(name, TRUE, "env.env_name", "env.delete",
                        "env.dropdown")>>,
         NoElement,
         from)

delete(name, really, from) ==
    Done(<<DeleteEntity(name, Default(really, TRUE), "env.env_name",
                        "env.delete", "env.dropdown")>>,
         NoElement,
         from)

----------------------------------------------------------------------------
(* The page-object specification: a caller makes one call after another,   *)
(* from whatever page the browser is on.                                   *)

NoCall ==
    [op |-> "none", name |-> <<>>, orgs |-> None, new_orgs |-> None,
     new_name |-> None, org_select |-> Omitted, really |-> Omitted,
     present |-> FALSE, field |-> FALSE, from |-> "dashboard"]

Returned(c, d) ==
    /\ call' = c
    /\ log' = d.log
    /\ ret' = d.ret
    /\ page' = d.page
    /\ UNCHANGED <<uiVars, fixVars, apiVars>>

\* Something other than the page object moves the browser to another page.
Browse ==
    /\ \E p \in Pages : page' = p
    /\ call' = [NoCall EXCEPT !.from = page]
    /\ log' = <<>>
    /\ ret' = NoElement
    /\ UNCHANGED <<uiVars, fixVars, apiVars>>

Search ==
    \E name \in Names, present \in BOOLEAN :
        Returned([NoCall EXCEPT !.op = "search", !.name = name,
                                !.present = present, !.from = page],
                 search(name, present))

Create ==
    \E name \in Names, orgs \in OrgArgs, org_select \in BoolArgs,
       field \in BOOLEAN :
        Returned([NoCall EXCEPT !.op = "create", !.name = name, !.orgs = orgs,
                                !.org_select = org_select, !.field = field,
                                !.from = page],
                 create(name, orgs, org_select, field))

Update ==
    \E old_name \in Names, orgs \in OrgArgs, new_orgs \in NewOrgArgs,
       new_name \in NewNameArgs, org_select \in BoolArgs,
       present \in BOOLEAN, field \in BOOLEAN :
        Returned([NoCall EXCEPT !.op = "update", !.name = old_name,
                                !.orgs = orgs, !.new_orgs = new_orgs,
                                !.new_name = new_name,
                                !.org_select = org_select,
                                !.present = present, !.field = field,
                                !.from = page],
                 update(old_name, orgs, new_orgs, new_name, org_select,
                        present, field))

Delete ==
    \E name \in Names, really \in BoolArgs :
        Returned([NoCall EXCEPT !.op = "delete", !.name = name,
                                !.really = really, !.from = page],
                 delete(name, really, page))

EnvInit ==
    /\ page = "dashboard"
    /\ call = NoCall
    /\ log = <<>>
    /\ ret = NoElement

EnvNext ==
    \/ Browse
    \/ Search
    \/ Create
    \/ Update
    \/ Delete

\* The calls of a log that act on the page (a wait only looks).
IsStep(e) == e.act # "wait_until_element"
Steps(l) == SelectSeq(l, IsStep)
IsSubmit(e) == e = Click("common.submit")
IsLocate(e) == e.act = "search_entity"
IsWait(e) == e.act = "wait_until_element"
IsRename(e) == e.act = "field_update"

\* What follows the search in the log of an update.
AfterSearch(l) == SubSeq(l, Len(NavClicks("environments")) + 2, Len(l))

(* C2: search locates with env.env_name when len(name) <= 30 and with      *)
(* select_filtered_entity when len(name) > 30, with exactly one lookup,    *)
(* and returns what that lookup answered, unchanged.                       *)
C2_SearchDispatch ==
    call.op = "search" =>
        /\ Len(SelectSeq(log, IsLocate)) = 1
        /\ LET ev == SelectSeq(log, IsLocate)[1]
           IN  /\ ev.text = call.name
               /\ Len(call.name) <= NAME_THRESHOLD => ev.loc = "env.env_name"
               /\ Len(call.name) > NAME_THRESHOLD
                      => ev.loc = "common.select_filtered_entity"
               /\ ret = SearchEntity(call.name, ev.loc, call.present)

C2_Witness ==
    /\ call.op = "search"
    /\ Len(call.name) = NAME_THRESHOLD + 1
    /\ ret = Element(call.name, "common.select_filtered_entity")

(* C3 (as claimed): when the name field is missing after the wait in       *)
(* create or update, the operation does not go on to submit and return as  *)
(* if it had succeeded.                                                    *)
C3_MissingFieldStops ==
    (/\ call.op \in {"create", "update"}
     /\ Len(SelectSeq(log, IsWait)) > 0
     /\ ~call.field)
        => Len(SelectSeq(log, IsSubmit)) = 0

(* C4: every search first makes the navigator's clicks to the environments *)
(* listing, the same ones on every call, and only then the lookup,         *)
(* whatever page the browser was on and whatever the name's length.        *)
C4_SearchNavigatesFirst ==
    call.op = "search" =>
        /\ log = <<Click("menu.configure"), Click("menu.environments"),
                   SearchEntityEv(call.name, SearchLocator(call.name))>>
        /\ page = "environments"

C4_Witness ==
    /\ call.op = "search"
    /\ call.from = "environment_edit"
    /\ Len(call.name) > NAME_THRESHOLD
    /\ Len(log) = 3 /\ IsLocate(log[3])

(* C5 (as claimed): create clicks env.new, fills the name field,           *)
(* configures the organizations exactly when orgs is non-empty, and clicks *)
(* submit once, last; it returns None.                                     *)
C5_CreateSteps ==
    call.op = "create" =>
        /\ Steps(log)
              = <<Click("env.new"), SendKeys("env.name", call.name)>>
                \o (IF Truthy(call.orgs)
                    THEN <<ConfigureEntity(call.orgs, "env_org", "tab_org",
                                None, Default(call.org_select, TRUE))>>
                    ELSE <<>>)
                \o <<Click("common.submit")>>
        /\ ret = NoElement

(* C6: an update that found the entity through search(old_name) opens it,  *)
(* renames it only when a new name is given, edits the organizations and   *)
(* clicks submit exactly once, as its last action.                         *)
C6_UpdateSteps ==
    (call.op = "update" /\ call.present) =>
        LET found == Element(call.name, SearchLocator(call.name))
            rest == Steps(AfterSearch(log))
            n == Len(rest)
        IN  /\ SubSeq(log, 1, Len(log) - Len(AfterSearch(log)))
                  = search(call.name, call.present).log
            /\ n \in {3, 4}
            /\ rest[1] = ElementClick(found)
            /\ n = 4 => /\ Truthy(call.new_name)
                        /\ rest[2] = FieldUpdate("env.name", call.new_name.v)
            /\ rest[n - 1].act = "configure_entity"
            /\ rest[n - 1].list = call.orgs
            /\ rest[n - 1].new_list = call.new_orgs
            /\ rest[n] = Click("common.submit")
            /\ Len(SelectSeq(log, IsSubmit)) = 1

C6_Witness ==
    /\ call.op = "update"
    /\ call.present
    /\ Truthy(call.new_name)
    /\ Len(SelectSeq(log, IsRename)) = 1
    /\ log[Len(log)] = Click("common.submit")

(* C7: delete makes exactly one delete_entity call for name, with the      *)
(* confirmation flag as given (True when omitted) and the env.env_name,    *)
(* env.delete and env.dropdown locators, and nothing else.                 *)
C7_DeleteOnce ==
    call.op = "delete" =>
        /\ Len(log) = 1
        /\ log[1].act = "delete_entity"
        /\ log[1].text = call.name
        /\ log[1].flag = (IF call.really.given THEN call.really.value ELSE TRUE)
        /\ log[1].loc = "env.env_name"
        /\ log[1].loc2 = "env.delete"
        /\ log[1].loc3 = "env.dropdown"
        /\ ret = NoElement

C7_Witness ==
    /\ call.op = "delete"
    /\ call.really = Given(FALSE)
    /\ log[1].act = "delete_entity"
    /\ ~log[1].flag

----------------------------------------------------------------------------
(* The test cases of tests/foreman/ui and one of tests/foreman/cli as      *)
(* sequential programs.  A test case is a body of statements, run inside   *)
(* a Session block (UI) and inside a data loop of subTest blocks (looped). *)
(* Statements: make (a factory call), search, update, delete, wait (page-  *)
(* object calls), cli_delete, assert (an assertion on what the statement   *)
(* before it returned), assert_self (assertTrue(self, ...)), and           *)
(* assert_raises (assertRaises around a CLI info call).                     *)

LoopLen == 2

NoStep == [test |-> "none", iter |-> 0, pos |-> 0, kind |-> "none",
           ok |-> TRUE, session |-> "none"]

T(class, looped, body) == [class |-> class, looped |-> looped, body |-> body]

TestNames ==
    {"cg_create_positive", "cg_create_negative", "cg_update_positive",
     "cg_delete_positive", "m_positive_create", "m_negative_long_names",
     "m_negative_empty_strings", "m_negative_same_name",
     "m_negative_without_path", "m_negative_same_path", "m_remove",
     "m_update", "lce_positive_delete_1"}

Test(t) ==
    CASE t = "cg_create_positive" ->
            T("ConfigGroups", TRUE, <<"make", "search", "assert">>)
      [] t = "cg_create_negative" ->
            T("ConfigGroups", TRUE,
              <<"make", "wait", "assert", "search", "assert">>)
      [] t = "cg_update_positive" ->
            T("ConfigGroups", TRUE,
              <<"make", "search", "assert", "update", "search", "assert">>)
      [] t = "cg_delete_positive" ->
            T("ConfigGroups", TRUE, <<"make", "delete">>)
      [] t = "m_positive_create" ->
            T("Medium", FALSE, <<"make", "search", "assert">>)
      [] t = "m_negative_long_names" ->
            T("Medium", FALSE,
              <<"make", "wait", "assert", "search", "assert">>)
      [] t = "m_negative_empty_strings" ->
            T("Medium", FALSE, <<"make", "wait", "assert">>)
      [] t = "m_negative_same_name" ->
            T("Medium", FALSE,
              <<"make", "search", "assert", "make", "wait", "assert">>)
      [] t = "m_negative_without_path" ->
            T("Medium", FALSE,
              <<"make", "wait", "assert", "search", "assert">>)
      [] t = "m_negative_same_path" ->
            T("Medium", FALSE,
              <<"make", "search", "assert", "make", "wait", "assert",
                "search", "assert">>)
      [] t = "m_remove" ->
            T("Medium", FALSE, <<"make", "delete">>)
      [] t = "m_update" ->
            T("Medium", FALSE,
              <<"make", "search", "assert", "update", "search",
                "assert_self">>)
      [] t = "lce_positive_delete_1" ->
            T("TestLifeCycleEnvironment", TRUE,
              <<"make", "cli_delete", "assert_raises">>)

IsUITest(t) == t \in TestNames /\ Test(t).class \in {"ConfigGroups", "Medium"}

PageActions == {"make", "search", "update", "delete", "wait"}

\* Whether the body of test case t is a `with Session(self.browser)` block.
NoSession(t) == FALSE

UsesSession(t) == IsUITest(t)

\* Whether the body runs per item of a data list, in a subTest block.
Looped(t) == Test(t).looped

\* A statement that cannot fail: assertTrue(self, x) tests self, not x.
CanFail(kind) == kind # "assert_self"

\* What a page-object call hands back: wait_until_element and search return
\* the element or None; the other calls return nothing the tests look at.
Returns(kind) ==
    IF kind \in {"wait", "search"} THEN {"element", "none"} ELSE {"-"}

\* The assertions that are assertIsNone (the test case, the place in its
\* body); the other assertions on a returned value are assertIsNotNone.
AssertIsNone ==
    {<<"cg_create_negative", 5>>, <<"m_negative_long_names", 5>>,
     <<"m_negative_without_path", 5>>, <<"m_negative_same_path", 8>>}

ExpectedElement(t, p) == "element"

ExpectedNone(t, p) == "none"

Expected(t, p) == IF <<t, p>> \in AssertIsNone THEN "none" ELSE "element"

\* The value the statement before the p-th of the pass returned.
Got(l, p) == IF p >= 2 /\ p - 1 <= Len(l) THEN l[p - 1].val ELSE "-"

\* How statement p of test case t ends: an assertion on a returned value
\* holds or not by that value; any other statement that can fail may raise.
Outcomes(t, p, l) ==
    LET kind == Test(t).body[p]
    IN  IF kind = "assert" THEN {Got(l, p) = Expected(t, p)}
        ELSE IF CanFail(kind) THEN BOOLEAN
        ELSE {TRUE}

\* Session.__enter__ logs in; Session.__exit__ logs out.
SessionEnter == "active"
SessionExit(exc) == "logged_out"

\* Leaving a `with Session` block, by return or by exception, runs __exit__.
ExitOnReturnOnly(sess, exc) == IF exc THEN sess ELSE SessionExit(exc)

WithExit(sess, exc) == SessionExit(exc)

\* Where a failed statement of iteration i leaves test case t: a subTest
\* block records the failure and the loop goes on with the next item;
\* outside one the exception leaves the body.
Ctl(pc, i, p) == [pc |-> pc, iter |-> i, pos |-> p]

AfterSuccess(t, i, p) ==
    IF p < Len(Test(t).body) THEN Ctl("body", i, p)
    ELSE IF Looped(t) /\ i < LoopLen THEN Ctl("body", i + 1, 0)
    ELSE Ctl("leaving", i, p)

FailureSwallowed(t, i, p) == AfterSuccess(t, i, p)

AfterFailure(t, i, p) ==
    IF Looped(t)
    THEN IF i < LoopLen THEN Ctl("body", i + 1, 0) ELSE Ctl("leaving", i, p)
    ELSE Ctl("raising", i, p)

StartTest ==
    /\ upc = "idle"
    /\ \E t \in TestNames :
        /\ utest' = t
        /\ upc' = IF UsesSession(t) THEN "enter" ELSE "body"
    /\ iter' = 1
    /\ pos' = 0
    /\ session' = "none"
    /\ last' = NoStep
    /\ subFails' = 0
    /\ verdict' = "none"
    /\ ulog' = <<>>
    /\ UNCHANGED <<envVars, fixVars, apiVars>>

EnterSession ==
    /\ upc = "enter"
    /\ session' = SessionEnter
    /\ upc' = "body"
    /\ UNCHANGED <<utest, iter, pos, last, subFails, verdict, ulog,
                   envVars, fixVars, apiVars>>

RunStep ==
    /\ upc = "body"
    /\ LET kind == Test(utest).body[pos + 1]
           sofar == IF pos = 0 THEN <<>> ELSE ulog
       IN  \E ok \in Outcomes(utest, pos + 1, sofar), val \in Returns(kind) :
            LET to == IF ok THEN AfterSuccess(utest, iter, pos + 1)
                      ELSE AfterFailure(utest, iter, pos + 1)
            IN  /\ ~ok => val \in {"-", "none"}
                /\ ulog' = Append(sofar,
                        [kind |-> kind, ok |-> ok,
                         val |-> IF ok THEN val ELSE "-"])
                /\ last' = [test |-> utest, iter |-> iter, pos |-> pos + 1,
                            kind |-> kind, ok |-> ok, session |-> session]
                /\ upc' = to.pc
                /\ iter' = to.iter
                /\ pos' = to.pos
                /\ subFails' = IF ~ok /\ Looped(utest)
                               THEN subFails + 1 ELSE subFails
    /\ UNCHANGED <<utest, session, verdict, envVars, fixVars, apiVars>>

LeaveBody ==
    /\ upc \in {"leaving", "raising"}
    /\ session' = IF UsesSession(utest)
                  THEN WithExit(session, upc = "raising")
                  ELSE session
    /\ verdict' = IF upc = "raising" \/ subFails > 0 THEN "failed" ELSE "passed"
    /\ upc' = "done"
    /\ UNCHANGED <<utest, iter, pos, last, subFails, ulog,
                   envVars, fixVars, apiVars>>

EndTest ==
    /\ upc = "done"
    /\ upc' = "idle"
    /\ utest' = "none"
    /\ session' = "none"
    /\ UNCHANGED <<iter, pos, last, subFails, verdict, ulog,
                   envVars, fixVars, apiVars>>

UINext ==
    \/ StartTest
    \/ EnterSession
    \/ RunStep
    \/ LeaveBody
    \/ EndTest

(* C1: every way out of a Session block, by return or by an exception (a  *)
(* failed assertion included), logs out: a UI test case that has ended     *)
(* has no session still logged in, and leaving the block logs out.         *)
C1_LogoutOnEveryExit ==
    /\ (upc = "done" /\ IsUITest(utest)) => session = "logged_out"
    /\ (upc = "idle") => session # "active"

C1_Witness ==
    /\ upc = "done"
    /\ IsUITest(utest)
    /\ ~Looped(utest)
    /\ ~last.ok
    /\ last.kind = "assert"
    /\ last.session = "active"
    /\ verdict = "failed"
    /\ session = "logged_out"

(* C8: in a UI test case every page-object action runs while the session   *)
(* is active, and the session only goes from not logged in to active to    *)
(* logged out; it is never active again after its logout.                  *)
SessionOrder ==
    session' # session =>
        \/ session = "none" /\ session' = "active" /\ upc = "enter"
        \/ session = "active" /\ session' = "logged_out"
        \/ session = "logged_out" /\ session' = "none" /\ utest' # utest

C8_ActionsInsideSession ==
    /\ []((IsUITest(last.test) /\ last.kind \in PageActions)
             => last.session = "active")
    /\ [][SessionOrder]_vars

C8_Witness ==
    /\ last.test = "m_negative_same_path"
    /\ last.kind = "search"
    /\ last.pos = 7
    /\ last.session = "active"
    /\ session = "logged_out"

(* C9 (as claimed): after a statement of a test case has failed, no later  *)
(* statement of that test case executes, later iterations of a data loop   *)
(* included.                                                               *)
C9_FailureAbortsTestCase ==
    [][~last.ok => (last' = last \/ last' = NoStep)]_vars

(* C9 (amended): a failure inside a subTest block ends that iteration      *)
(* only: no later statement of the iteration executes, the failure is      *)
(* recorded and the test case ends failed, and the loop goes on with the   *)
(* next item; a failure outside a subTest block ends the test case.  No    *)
(* statement is executed a second time for the same item.                  *)
C9_FailureAbortsIteration ==
    /\ [][~last.ok =>
            \/ last' = last
            \/ last' = NoStep
            \/ /\ Looped(last.test)
               /\ last'.iter = last.iter + 1
               /\ last'.pos = 1]_vars
    /\ [][(last' # last /\ last' # NoStep /\ last # NoStep) =>
            \/ last'.iter > last.iter
            \/ last'.iter = last.iter /\ last'.pos > last.pos]_vars
    /\ []((upc = "done" /\ (~last.ok \/ subFails > 0)) => verdict = "failed")

C9_Witness ==
    /\ utest = "cg_create_positive"
    /\ subFails = 1
    /\ last.iter = 2
    /\ last.ok
    /\ upc = "done"
    /\ verdict = "failed"

\* The negative create tests that search for the attempted name afterwards.
SearchingNegatives ==
    {"cg_create_negative", "m_negative_long_names",
     "m_negative_without_path", "m_negative_same_path"}

(* C20: a UI create that the product rejects (blank, whitespace or         *)
(* over-long name, missing path, duplicate path) raises no exception: in   *)
(* every pass of a test where the assertion on the error indicator holds,  *)
(* the create before it returned and the wait for the indicator returned   *)
(* the element; where the search for the attempted name follows and its    *)
(* assertion holds, the search returned None.  The tests of each of these  *)
(* cases make both assertions.                                             *)
C20_RejectedCreateReported ==
    /\ \A p \in 1..Len(ulog) :
        (/\ ulog[p].kind = "wait"
         /\ p + 1 <= Len(ulog)
         /\ ulog[p + 1].ok)
        => /\ p >= 2
           /\ ulog[p - 1].kind = "make"
           /\ ulog[p - 1].ok
           /\ ulog[p].val = "element"
           /\ (/\ p + 3 <= Len(ulog)
               /\ ulog[p + 2].kind = "search"
               /\ ulog[p + 3].ok)
              => ulog[p + 2].val = "none"
    /\ (upc = "done" /\ verdict = "passed" /\ utest \in SearchingNegatives)
        => \E p \in 1..Len(ulog) :
            /\ p >= 2
            /\ p + 1 <= Len(ulog)
            /\ ulog[p - 1].kind = "wait"
            /\ ulog[p - 1].val = "element"
            /\ ulog[p + 1].kind = "search"
            /\ ulog[p + 1].val = "none"

C20_Witness ==
    /\ upc = "done"
    /\ verdict = "passed"
    /\ utest = "m_negative_same_path"
    /\ Len(ulog) = Len(Test(utest).body)
    /\ \A p \in 1..Len(ulog) : ulog[p].ok
    /\ ulog[5].kind = "wait" /\ ulog[5].val = "element"
    /\ ulog[7].kind = "search" /\ ulog[7].val = "none"

----------------------------------------------------------------------------
(* Class-level fixtures.  TestLifeCycleEnvironment creates its shared      *)
(* organization lazily in setUp; the Docker test classes create theirs in  *)
(* setUpClass.  unittest runs the tests of one class after another, in any *)
(* order, and setUpClass once before the first of them; a setUpClass or a  *)
(* setUp that raises keeps the test bodies it precedes from running.       *)

MaxRuns == 4

LazyClass == "TestLifeCycleEnvironment"
EagerClasses == {"DockerRepositoryTestCase", "DockerActivationKeyTestCase"}
Classes == {LazyClass} \cup EagerClasses
AKClass == "DockerActivationKeyTestCase"
ProxyClass == "MissingAttrTestCase"

LceTests ==
    {"test_bugzilla_1077386", "test_bugzilla_1077333",
     "test_positive_create_1", "test_positive_create_2",
     "test_create_lifecycle_environment_by_label",
     "test_create_lifecycle_environment_by_organization_name",
     "test_create_lifecycle_environment_by_organization_label",
     "test_positive_delete_1", "test_positive_update_1",
     "test_positive_update_2", "test_environment_paths"}

\* The tests that make an organization of their own and never read self.org.
OwnOrgTests == {"test_environment_paths"}

Idle(c) == [class |-> c, test |-> "none", pc |-> "idle"]

\* The class attributes DockerActivationKeyTestCase.setUpClass assigns after
\* cls.org, and the calls it makes after creating the organization, in
\* order: the attribute the call's result is assigned to, or the call.
AttrNames == {"lce", "repo", "content_view", "cvv"}

RestOfSetUp(c) ==
    IF c = AKClass
    THEN <<"lce", "repo", "content_view", "publish", "cvv", "promote">>
    ELSE <<>>

\* The attributes once the first k of these calls returned and the next
\* one, if any, raised.
NoAttrs == [a \in AttrNames |-> 0]

AttrsAfter(c, k) ==
    [a \in AttrNames |->
        IF \E i \in 1..k : RestOfSetUp(c)[i] = a THEN 1 ELSE 0]

\* The keys the product may answer for a smart proxy.
ProxyKeys == {"location_ids", "locations", "organizations"}

NoProxyAttrs == [set |-> FALSE, names |-> {}]

ProxyTests == {"test_location", "test_organization"}

NoProxyRun == [test |-> "none", hits |-> 0, passed |-> TRUE]

\* What one_to_many_names(field) may return: the names the product may
\* assign to a one-to-many field.
one_to_many_names == SUBSET ProxyKeys

\* assertGreater(first, second): passes when first > second.
AssertGreater(first, second) == first > second

\* Where test_environment_paths puts the organization it makes:
\* org = make_org() binds the local name org.
OrgTargetClass(t) == "class"

OrgTarget(t) == "local"

\* setUp: if TestLifeCycleEnvironment.org is None.
AlwaysCreate(org) == TRUE

OrgIsNone(org) == org = 0

\* The product makes an organization and answers with its id, or the call
\* raises and nothing is made.
MakeOrgAssignsFirst(c, ok) ==
    /\ orgCalls' = [orgCalls EXCEPT ![c] = @ + 1]
    /\ fixture' = [fixture EXCEPT ![c] = nextOrg]
    /\ nextOrg' = nextOrg + 1
    /\ orgMade' = [orgMade EXCEPT ![c] = IF ok THEN @ + 1 ELSE @]

MakeOrg(c, ok) ==
    /\ orgCalls' = [orgCalls EXCEPT ![c] = @ + 1]
    /\ IF ok
       THEN /\ fixture' = [fixture EXCEPT ![c] = nextOrg]
            /\ orgMade' = [orgMade EXCEPT ![c] = @ + 1]
            /\ nextOrg' = nextOrg + 1
       ELSE UNCHANGED <<fixture, orgMade, nextOrg>>

\* The runner starts on the tests of a class with no setUpClass of its own.
EnterLazyClass ==
    /\ frun.pc = "idle" /\ frun.class = "none"
    /\ LazyClass \notin entered
    /\ entered' = entered \cup {LazyClass}
    /\ frun' = Idle(LazyClass)
    /\ UNCHANGED <<fixture, orgCalls, orgMade, nextOrg, seenOrg, runs,
                   attrVars, envVars, uiVars, apiVars>>

\* setUpClass: cls.org = entities.Organization().create(), and in
\* DockerActivationKeyTestCase the calls after it, k of which return before
\* one raises.  The tests of the class run only if setUpClass returned.
SetUpClass ==
    /\ frun.pc = "idle" /\ frun.class = "none"
    /\ \E c \in EagerClasses \ entered, ok \in BOOLEAN :
        \E k \in 0..(IF ok THEN Len(RestOfSetUp(c)) ELSE 0) :
            /\ entered' = entered \cup {c}
            /\ MakeOrg(c, ok)
            /\ attrs' = IF c = AKClass THEN AttrsAfter(c, k) ELSE attrs
            /\ frun' = IF ok /\ k = Len(RestOfSetUp(c))
                       THEN Idle(c) ELSE Idle("none")
    /\ UNCHANGED <<seenOrg, runs, proxyAttrs, localOrg, seenAttrs, seenProxy,
                   proxyRun,
                   envVars, uiVars, apiVars>>

\* MissingAttrTestCase.setUpClass: search the smart proxies, assert that
\* there is one, and keep the keys of its update_json answer.
SetUpClassProxy ==
    /\ frun.pc = "idle" /\ frun.class = "none"
    /\ ProxyClass \notin entered
    /\ entered' = entered \cup {ProxyClass}
    /\ \E ok \in BOOLEAN, keys \in SUBSET ProxyKeys :
        IF ok
        THEN /\ proxyAttrs' = [set |-> TRUE, names |-> keys]
             /\ frun' = Idle(ProxyClass)
        ELSE /\ keys = {}
             /\ UNCHANGED <<proxyAttrs, frun>>
    /\ UNCHANGED <<fixture, orgCalls, orgMade, nextOrg, seenOrg, runs, attrs,
                   localOrg, seenAttrs, seenProxy, proxyRun, envVars, uiVars,
                   apiVars>>

\* TestLifeCycleEnvironment.setUp, before each of its tests.
SetUp ==
    /\ frun = Idle(LazyClass)
    /\ runs < MaxRuns
    /\ runs' = runs + 1
    /\ \E t \in LceTests, ok \in BOOLEAN :
        IF OrgIsNone(fixture[LazyClass])
        THEN /\ MakeOrg(LazyClass, ok)
             /\ frun' = IF ok THEN [frun EXCEPT !.test = t, !.pc = "body"]
                        ELSE frun
        ELSE /\ ok
             /\ frun' = [frun EXCEPT !.test = t, !.pc = "body"]
             /\ UNCHANGED <<fixture, orgCalls, orgMade, nextOrg>>
    /\ localOrg' = 0
    /\ UNCHANGED <<seenOrg, entered, attrs, proxyAttrs, seenAttrs, seenProxy,
                   proxyRun,
                   envVars, uiVars, apiVars>>

\* The body of a test of TestLifeCycleEnvironment: it reads self.org, or
\* (test_environment_paths) makes an organization of its own.
LceTestBody ==
    /\ frun.class = LazyClass /\ frun.pc = "body"
    /\ IF frun.test \in OwnOrgTests
       THEN /\ \E ok \in BOOLEAN :
                IF ok
                THEN /\ nextOrg' = nextOrg + 1
                     /\ IF OrgTarget(frun.test) = "local"
                        THEN /\ localOrg' = nextOrg
                             /\ UNCHANGED fixture
                        ELSE /\ fixture' = [fixture EXCEPT
                                                ![LazyClass] = nextOrg]
                             /\ UNCHANGED localOrg
                ELSE UNCHANGED <<nextOrg, localOrg, fixture>>
            /\ UNCHANGED seenOrg
       ELSE /\ seenOrg' = [seenOrg EXCEPT ![LazyClass] = @ \cup {fixture[LazyClass]}]
            /\ UNCHANGED <<nextOrg, localOrg, fixture>>
    /\ frun' = Idle(LazyClass)
    /\ UNCHANGED <<orgCalls, orgMade, entered, runs, attrs, proxyAttrs,
                   seenAttrs, seenProxy, proxyRun, envVars, uiVars, apiVars>>

\* A test of a Docker test class: it reads self.org and, in
\* DockerActivationKeyTestCase, self.lce, self.repo, self.content_view and
\* self.cvv; what it creates it binds to local names (ak, comp_content_view,
\* comp_cvv).
EagerTest ==
    /\ frun.pc = "idle" /\ frun.class \in EagerClasses
    /\ runs < MaxRuns
    /\ runs' = runs + 1
    /\ seenOrg' = [seenOrg EXCEPT ![frun.class] = @ \cup {fixture[frun.class]}]
    /\ seenAttrs' = IF frun.class = AKClass
                    THEN seenAttrs \cup {attrs} ELSE seenAttrs
    /\ UNCHANGED <<fixture, orgCalls, orgMade, nextOrg, frun, entered,
                   attrs, proxyAttrs, localOrg, seenProxy, proxyRun, envVars, uiVars,
                   apiVars>>

\* test_location, test_organization: names = one_to_many_names(field),
\* the names the product may give the field (a function of
\* robottelo.api.utils: some set of names), and
\* assertGreater(len(names & self.smart_proxy_attrs), 1, ...).
ProxyTest ==
    /\ frun.pc = "idle" /\ frun.class = ProxyClass
    /\ runs < MaxRuns
    /\ runs' = runs + 1
    /\ seenProxy' = seenProxy \cup {proxyAttrs}
    /\ \E t \in ProxyTests, names \in one_to_many_names :
        LET hits == Cardinality(names \cap proxyAttrs.names)
        IN  proxyRun' = [test |-> t, hits |-> hits,
                         passed |-> AssertGreater(hits, 1)]
    /\ UNCHANGED <<fixture, orgCalls, orgMade, nextOrg, frun, entered, seenOrg,
                   attrs, proxyAttrs, localOrg, seenAttrs, envVars, uiVars, apiVars>>

\* The runner is through with the tests of the class.
LeaveClass ==
    /\ frun.pc = "idle" /\ frun.class # "none"
    /\ frun' = Idle("none")
    /\ UNCHANGED <<fixture, orgCalls, orgMade, nextOrg, seenOrg, entered,
                   runs, attrVars, envVars, uiVars, apiVars>>

FixNext ==
    \/ EnterLazyClass
    \/ SetUpClass
    \/ SetUpClassProxy
    \/ SetUp
    \/ LceTestBody
    \/ EagerTest
    \/ ProxyTest
    \/ LeaveClass

(* C10 (as claimed): over any tests of a class, in any order, the          *)
(* organization-creating call for the class fixture runs once (never a     *)
(* second time), and every test body observes the one organization.        *)
C10_CreateCallRunsOnce ==
    \A c \in Classes :
        /\ orgCalls[c] <= 1
        /\ seenOrg[c] \subseteq {fixture[c]} \ {0}

(* C10 (amended): whatever tests of the class run and in whatever order,   *)
(* at most one organization is made for the class fixture, exactly one     *)
(* once a test body has run, and every test body that reads the fixture    *)
(* observes that organization; setUpClass makes its call once, while the   *)
(* lazy setUp repeats a call that raised.                                  *)
C10_OrgCreatedOnce ==
    \A c \in Classes :
        /\ orgMade[c] <= 1
        /\ c \in EagerClasses => orgCalls[c] <= 1
        /\ (fixture[c] # 0) <=> (orgMade[c] = 1)
        /\ seenOrg[c] \subseteq {fixture[c]} \ {0}
        /\ (frun.class = c /\ frun.pc = "body") => orgMade[c] = 1
        /\ (frun.class = c /\ c \in EagerClasses) => orgMade[c] = 1
        /\ seenOrg[c] # {} => orgMade[c] = 1

C10_Witness ==
    /\ runs >= 3
    /\ orgCalls[LazyClass] = 2
    /\ orgMade[LazyClass] = 1
    /\ seenOrg[LazyClass] = {fixture[LazyClass]}
    /\ orgMade["DockerRepositoryTestCase"] = 1
    /\ seenOrg["DockerRepositoryTestCase"] # {}
    /\ fixture["DockerRepositoryTestCase"] # fixture[LazyClass]

(* C11: no test method reassigns a class-level fixture (org, lce, repo,    *)
(* content_view, cvv, smart_proxy_attrs): a step of a test body leaves     *)
(* every fixture as class setup set it, whatever tests ran before and in   *)
(* whatever order; the values test bodies read are the ones the class      *)
(* holds, and what a test creates goes to its own local variables.         *)
TestBodyStep ==
    \/ frun.pc = "body"
    \/ /\ frun.pc = "idle"
       /\ frun.class \in EagerClasses \cup {ProxyClass}
       /\ runs' = runs + 1

C11_FixturesNotReassigned ==
    /\ [][TestBodyStep =>
            /\ fixture' = fixture
            /\ attrs' = attrs
            /\ proxyAttrs' = proxyAttrs]_vars
    /\ [](/\ \A c \in Classes : seenOrg[c] \subseteq {fixture[c]} \ {0}
          /\ seenAttrs \subseteq {attrs}
          /\ seenProxy \subseteq {proxyAttrs}
          /\ localOrg # 0 => localOrg \notin {fixture[c] : c \in Classes})

C11_Witness ==
    /\ localOrg # 0
    /\ fixture[LazyClass] # 0
    /\ seenOrg[LazyClass] = {fixture[LazyClass]}
    /\ seenAttrs = {AttrsAfter(AKClass, Len(RestOfSetUp(AKClass)))}
    /\ \E p \in seenProxy : p.set

----------------------------------------------------------------------------
(* The API and CLI test cases.  A test case is a sequence of statements:   *)
(* each is a call of the product, or a look at a field of what the last    *)
(* call answered, with the assertion the test makes on it.  The product is *)
(* a black box: whether a call raises, and what it answers, are inputs.    *)
(* Identifiers are written by position: the i-th entity a test creates of  *)
(* a kind has id i, and 1 stands for "the value the test compares with"    *)
(* where a test compares one answer with another.                          *)

MaxCount == 7

\* publish_amount = randint(2, 5); the products of
\* test_delete_random_docker_repo: range(randint(2, 5)).
RandLo == 2
RandHi == 5

\* for i in range(1, randint(3, 6)).
PromoteLo == 3
PromoteHi == 6

\* for url in (EXTERNAL_DOCKER_URL, INTERNAL_DOCKER_URL);
\* for compute_resource in (self.cr_internal, self.cr_external).
PairLen == 2

Step(op, obj, idx, arg, exc, field, rel, num) ==
    [op |-> op, obj |-> obj, idx |-> idx, arg |-> arg, exc |-> exc,
     field |-> field, rel |-> rel, num |-> num, iter |-> 0]

\* x.op(): the call must return.
Call(op, obj) == Step(op, obj, 0, "-", "none", "-", "-", 0)
CallOn(op, obj, idx, arg) == Step(op, obj, idx, arg, "none", "-", "-", 0)

\* y = x.op(); self.assertEqual(y.field, num) and the like.
Chk(op, obj, idx, field, rel, num) ==
    Step(op, obj, idx, "-", "none", field, rel, num)

\* An assertion on another field of what the last call answered.
Get(obj, field, rel, num) == Chk("get", obj, 0, field, rel, num)

\* with self.assertRaises(exc): x.op().
AssertRaises(exc, op, obj, idx, arg) ==
    Step(op, obj, idx, arg, exc, "-", "-", 0)

\* The statements of the i-th pass of a loop whose passes are subTest blocks.
InSubTest(body, i) == [k \in 1..Len(body) |-> [body[k] EXCEPT !.iter = i]]

\* The passes f[1], ..., f[n] of a loop, one after the other.
RECURSIVE Passes(_, _)
Passes(f, n) == IF n = 0 THEN <<>> ELSE Passes(f, n - 1) \o f[n]

\* repo = _create_repository(entities.Product(organization=...).create()).
CreateRepoAlone == <<Call("create", "repo")>>

CreateRepo == <<Call("create", "product"), Call("create", "repo")>>

\* A content view holding the repository: create, then update(['repository'])
\* and the assertion that the answer lists the repository.
CVWithRepo ==
    <<Call("create", "content_view"),
      Chk("update", "content_view", 0, "has_repo", "eq", 1)>>

\* A composite content view holding the published version as component.
CompositeCV ==
    <<Call("create", "comp_content_view"),
      Chk("update", "comp_content_view", 0, "has_component", "eq", 1)>>

\* with self.assertRaises(...): the read of an entity just deleted.
ReadUnchecked(exc, op, obj) == Call(op, obj)

ReadDeleted(exc, op, obj) == AssertRaises(exc, op, obj, 0, "-")

\* with self.assertRaises(HTTPError): promote(ContentViewVersion(id=1), ...).
PromoteUnchecked(arg) == CallOn("promote", "default_cvv", 0, arg)

NegativePromote(arg) == AssertRaises("HTTPError", "promote", "default_cvv", 0, arg)

\* with self.assertRaises(HTTPError): content_view.version[0].delete().
DeleteUnchecked(obj) == Call("delete", obj)

DeleteRefused(obj) == AssertRaises("HTTPError", "delete", obj, 0, "-")

\* assertEqual(len(content_view.read().version), 0) after the delete.
AfterDeleteOne(obj) == Chk("read", obj, 0, "version", "eq", 1)

AfterDelete(obj) == Chk("read", obj, 0, "version", "eq", 0)

\* assertEqual(len(cvv.read().environment), i+1) in the promote loops.
EnvsSame(i) == i
EnvsAfter(i) == i + 1

\* assertEqual(len(content_view.version), publish_amount).
VersionsOneMore(publish_amount) == publish_amount + 1
VersionsAfter(publish_amount) == publish_amount

\* The versions sorted by minor number: the first has no puppet module, the
\* second has one, and it is the module that was added.
CheckVersionsSwapped(added) ==
    <<Get("newer", "puppet_module", "eq", 0),
      Get("older", "puppet_module", "eq", 1),
      Get("older", "puppet_module_id", "eq", added)>>

CheckVersions(added) ==
    <<Get("older", "puppet_module", "eq", 0),
      Get("newer", "puppet_module", "eq", 1),
      Get("newer", "puppet_module_id", "eq", added)>>

\* for repo in repos, after repos.pop(): the repositories not deleted.
OtherRepos(n, d) == (1..n) \ {d}

\* content_view.delete_from_environment(env.id) for the k environments the
\* version was read to be in, last one first.
RemoveFromEnvs(k) ==
    [i \in 1..k |->
        CallOn("delete_from_environment", "content_view", k + 1 - i, "env")]

\* for _ in range(publish_amount): content_view.publish().
PublishTimes(obj, publish_amount) ==
    [i \in 1..publish_amount |-> Call("publish", obj)]

\* One pass of a promote loop: a new lifecycle environment, the promote to
\* it, and the count of environments read back.
PromotePass(obj, i) ==
    <<CallOn("create", "lce", i, "-"),
      CallOn("promote", obj, i, "lce"),
      Chk("read", obj, 0, "environment", "eq", EnvsAfter(i))>>

\* for new_name in valid_data_list(): the item of the i-th pass.
FirstValue(i) == 1

NewValue(i) == i

\* One pass of the loop of test_positive_update_1 / _2: the update of the
\* lifecycle environment made before the loop, by its id and in self.org,
\* the info by the same id and organization, and the assertions on it.
UpdatePass(option, field, i) ==
    InSubTest(<<Step("cli_update", "new_lce", 0, "org", "none", option, "-", 0),
                Step("info", "new_lce", 0, "org", "none", "len", "gt", 0),
                Get("new_lce", field, "eq", NewValue(i))>>, i)

UpdateTests == {"test_positive_update_1", "test_positive_update_2"}

\* DockerActivationKeyTestCase.setUpClass: the organization, the lifecycle
\* environment, the repository, the content view holding it, its publish,
\* the read of its version and the promote of that version to the
\* environment.
AKSetUpClassUnpublished ==
    <<Call("create", "org"), Call("create", "lce"), Call("create", "product"),
      Call("create", "repo"), Call("create", "content_view"),
      Call("update", "content_view")>>

AKSetUpClass ==
    <<Call("create", "org"), Call("create", "lce"), Call("create", "product"),
      Call("create", "repo"), Call("create", "content_view"),
      Call("update", "content_view"), Call("publish", "content_view"),
      Call("read", "content_view"), Call("read", "cvv"),
      CallOn("promote", "cvv", 0, "lce")>>

AKTests ==
    {"test_add_docker_repo_to_activation_key",
     "test_remove_docker_repo_to_activation_key",
     "test_add_docker_repo_composite_view_to_activation_key",
     "test_remove_docker_repo_composite_view_to_activation_key"}

\* ak = entities.ActivationKey(content_view=cv, environment=self.lce,
\* organization=self.org).create(), and the assertion that the answer names
\* the content view.
CreateAK(cv) ==
    <<Step("create", "ak", 0, cv, "none", "content_view_id", "eq", 1)>>

\* ak.content_view = None; assertIsNone(ak.update(['content_view'])
\* .content_view): 0 stands for None.
RemoveCV == <<Chk("update", "ak", 0, "content_view_id", "eq", 0)>>

\* The composite content view of an activation-key test: created, given
\* self.cvv as component, published, and its version promoted to self.lce.
CompositePromoted ==
    <<Call("create", "comp_content_view"),
      Chk("update", "comp_content_view", 0, "component_id", "eq", 1),
      Call("publish", "comp_content_view"),
      Call("read", "comp_content_view"), Call("read", "comp_cvv"),
      CallOn("promote", "comp_cvv", 0, "lce")>>

\* The random draws of a test case: n, the amount drawn by randint, and d,
\* the repository that shuffle and pop pick.
Draw(n, d) == [n |-> n, d |-> d]

APITests ==
    {"test_delete_docker_repo", "test_delete_random_docker_repo",
     "test_publish_once_docker_repo_content_view",
     "test_publish_once_docker_repo_composite_content_view",
     "test_publish_multiple_docker_repo_content_view",
     "test_publish_multiple_docker_repo_composite_content_view",
     "test_promote_docker_repo_content_view",
     "test_promote_multiple_docker_repo_content_view",
     "test_promote_docker_repo_composite_content_view",
     "test_promote_multiple_docker_repo_composite_content_view",
     "test_delete_docker_compute_resource",
     "test_delete_container_compute_resource", "test_delete_registry",
     "test_negative_promote_1", "test_negative_promote_2",
     "test_delete_version", "test_delete_version_non_default",
     "test_delete_version_negative", "test_incremental_update_puppet",
     "test_positive_delete_1", "test_positive_update_1",
     "test_positive_update_2", "test_create_multiple_docker_repo",
     "test_environment_paths", "test_add_docker_repo_to_composite_content_view",
     "test_add_docker_repo_to_activation_key",
     "test_remove_docker_repo_to_activation_key",
     "test_add_docker_repo_composite_view_to_activation_key",
     "test_remove_docker_repo_composite_view_to_activation_key"}

Draws(t) ==
    CASE t \in {"test_publish_multiple_docker_repo_content_view",
                "test_publish_multiple_docker_repo_composite_content_view",
                "test_create_multiple_docker_repo"} ->
            {Draw(n, 0) : n \in RandLo..RandHi}
      [] t \in {"test_promote_multiple_docker_repo_content_view",
                "test_promote_multiple_docker_repo_composite_content_view"} ->
            {Draw(r - 1, 0) : r \in PromoteLo..PromoteHi}
      [] t = "test_delete_random_docker_repo" ->
            {x \in {Draw(n, d) : n \in RandLo..RandHi, d \in 1..RandHi} :
                x.d <= x.n}
      [] OTHER -> {Draw(0, 0)}

\* How often the data loop of a test case runs its subTest block (0: the
\* test case has no such loop).
SubTests(t) ==
    CASE t \in {"test_delete_docker_compute_resource",
                "test_delete_container_compute_resource"} -> PairLen
      [] t \in {"test_delete_registry", "test_positive_delete_1"} -> LoopLen
      [] OTHER -> 0

\* The statements of a test case (for a data loop: of one pass), in order.
Body(t, n, d) ==
    CASE t = "test_delete_docker_repo" ->
            CreateRepo \o
            <<Call("delete", "repo"), ReadDeleted("HTTPError", "read", "repo")>>
      [] t = "test_delete_random_docker_repo" ->
            [i \in 1..n |-> CallOn("create", "product", i, "-")] \o
            [i \in 1..n |-> Chk("create", "repo", i, "content_type", "eq", 1)] \o
            <<CallOn("delete", "repo", d, "-"),
              AssertRaises("HTTPError", "read", "repo", d, "-")>> \o
            Passes([i \in 1..n |->
                      IF i \in OtherRepos(n, d)
                      THEN <<Chk("read", "repo", i, "product", "in", n)>>
                      ELSE <<>>], n)
      [] t = "test_publish_once_docker_repo_content_view" ->
            CreateRepo \o CVWithRepo \o
            <<Chk("read", "content_view", 0, "last_published", "eq", 0),
              Get("content_view", "next_version", "eq", 1),
              Call("publish", "content_view"),
              Chk("read", "content_view", 0, "last_published", "gt", 0),
              Get("content_view", "next_version", "gt", 1)>>
      [] t = "test_publish_once_docker_repo_composite_content_view" ->
            CreateRepo \o CVWithRepo \o
            <<Chk("read", "content_view", 0, "last_published", "eq", 0),
              Get("content_view", "next_version", "eq", 1),
              Call("publish", "content_view"),
              Chk("read", "content_view", 0, "last_published", "gt", 0),
              Get("content_view", "next_version", "gt", 1)>> \o
            CompositeCV \o
            <<Call("publish", "comp_content_view"),
              Chk("read", "comp_content_view", 0, "last_published", "gt", 0),
              Get("comp_content_view", "next_version", "gt", 1)>>
      [] t = "test_publish_multiple_docker_repo_content_view" ->
            CreateRepo \o CVWithRepo \o
            <<Chk("read", "content_view", 0, "last_published", "eq", 0)>> \o
            PublishTimes("content_view", n) \o
            <<Chk("read", "content_view", 0, "last_published", "gt", 0),
              Get("content_view", "version", "eq", VersionsAfter(n))>>
      [] t = "test_publish_multiple_docker_repo_composite_content_view" ->
            CreateRepo \o CVWithRepo \o
            <<Chk("read", "content_view", 0, "last_published", "eq", 0),
              Call("publish", "content_view"),
              Chk("read", "content_view", 0, "last_published", "gt", 0)>> \o
            CompositeCV \o
            <<Get("comp_content_view", "last_published", "eq", 0)>> \o
            PublishTimes("comp_content_view", n) \o
            <<Chk("read", "comp_content_view", 0, "last_published", "gt", 0),
              Get("comp_content_view", "version", "eq", VersionsAfter(n))>>
      [] t = "test_promote_docker_repo_content_view" ->
            <<Call("create", "lce")>> \o CreateRepo \o CVWithRepo \o
            <<Call("publish", "content_view"), Call("read", "content_view"),
              Chk("read", "cvv", 0, "environment", "eq", 1),
              CallOn("promote", "cvv", 0, "lce"),
              Chk("read", "cvv", 0, "environment", "eq", 2)>>
      [] t = "test_promote_multiple_docker_repo_content_view" ->
            CreateRepo \o CVWithRepo \o
            <<Call("publish", "content_view"), Call("read", "content_view"),
              Chk("read", "cvv", 0, "environment", "eq", 1)>> \o
            Passes([i \in 1..n |-> PromotePass("cvv", i)], n)
      [] t = "test_promote_docker_repo_composite_content_view" ->
            <<Call("create", "lce")>> \o CreateRepo \o CVWithRepo \o
            <<Call("publish", "content_view"), Call("read", "content_view"),
              Call("read", "cvv")>> \o
            CompositeCV \o
            <<Call("publish", "comp_content_view"),
              Call("read", "comp_content_view"),
              Chk("read", "comp_cvv", 0, "environment", "eq", 1),
              CallOn("promote", "comp_cvv", 0, "lce"),
              Chk("read", "comp_cvv", 0, "environment", "eq", 2)>>
      [] t = "test_promote_multiple_docker_repo_composite_content_view" ->
            CreateRepo \o CVWithRepo \o
            <<Call("publish", "content_view"), Call("read", "content_view"),
              Call("read", "cvv")>> \o
            CompositeCV \o
            <<Call("publish", "comp_content_view"),
              Call("read", "comp_content_view"),
              Chk("read", "comp_cvv", 0, "environment", "eq", 1)>> \o
            Passes([i \in 1..n |-> PromotePass("comp_cvv", i)], n)
      [] t = "test_delete_docker_compute_resource" ->
            <<Chk("create", "resource", 0, "url", "eq", 1),
              Get("resource", "provider", "eq", 1),
              Call("delete", "resource"),
              ReadDeleted("HTTPError", "read", "resource")>>
      [] t = "test_delete_container_compute_resource" ->
            <<Call("create", "container"), Call("delete", "container"),
              ReadDeleted("HTTPError", "read", "container")>>
      [] t = "test_delete_registry" ->
            <<Call("create", "registry"), Call("delete", "registry"),
              ReadDeleted("HTTPError", "read", "registry")>>
      [] t = "test_positive_delete_1" ->
            <<Call("make", "new_lce"), Call("cli_delete", "new_lce"),
              ReadDeleted("CLIReturnCodeError", "info", "new_lce")>>
      [] t = "test_negative_promote_1" ->
            <<Call("create", "env"), NegativePromote("env")>>
      [] t = "test_negative_promote_2" ->
            <<NegativePromote("invalid")>>
      [] t = "test_delete_version" ->
            <<Call("create", "org"), Call("create", "gpgkey"),
              Call("create", "product"), Call("create", "repo"),
              Call("sync", "repo"), Call("create", "content_view"),
              Call("update", "content_view"), Call("publish", "content_view"),
              Chk("read", "content_view", 0, "version", "eq", 1),
              Chk("read", "cvv", 0, "environment", "eq", 1)>> \o
            RemoveFromEnvs(1) \o
            <<Call("delete", "cvv"), AfterDelete("content_view")>>
      [] t = "test_delete_version_non_default" ->
            <<Call("create", "org"), Call("create", "content_view"),
              Call("publish", "content_view"),
              Chk("read", "content_view", 0, "version", "eq", 1),
              Chk("read", "cvv", 0, "environment", "eq", 1),
              Call("create", "lce"),
              CallOn("promote", "cvv", 0, "lce"),
              Chk("read", "cvv", 0, "environment", "eq", 2)>> \o
            RemoveFromEnvs(2) \o
            <<Call("delete", "cvv"), AfterDelete("content_view")>>
      [] t = "test_delete_version_negative" ->
            <<Call("create", "org"), Call("create", "content_view"),
              Call("publish", "content_view"),
              Chk("read", "content_view", 0, "version", "eq", 1),
              DeleteRefused("cvv"),
              Chk("read", "content_view", 0, "version", "eq", 1)>>
      [] t = "test_create_multiple_docker_repo" ->
            <<Call("create", "product")>> \o
            Passes([i \in 1..n |->
                      <<CallOn("create", "repo", i, "-"),
                        Chk("read", "product", 0, "has_repo", "eq", 1)>>], n)
      [] t = "test_add_docker_repo_to_composite_content_view" ->
            CreateRepo \o CVWithRepo \o
            <<Call("publish", "content_view"),
              Chk("read", "content_view", 0, "version", "eq", 1)>> \o
            CompositeCV
      [] t = "test_add_docker_repo_to_activation_key" ->
            CreateAK("content_view") \o
            <<Chk("read", "content_view", 0, "repo_id", "eq", 1)>>
      [] t = "test_remove_docker_repo_to_activation_key" ->
            CreateAK("content_view") \o RemoveCV
      [] t = "test_add_docker_repo_composite_view_to_activation_key" ->
            CompositePromoted \o CreateAK("comp_content_view")
      [] t = "test_remove_docker_repo_composite_view_to_activation_key" ->
            CompositePromoted \o CreateAK("comp_content_view") \o RemoveCV
      [] t = "test_environment_paths" ->
            <<Call("make", "org"), Call("make", "lc_env"),
              Chk("paths", "org", 0, "has_path", "eq", 1)>>
      [] t = "test_incremental_update_puppet" ->
            <<Call("create", "product"), Call("create", "yum_repo"),
              Call("create", "content_view"), Call("publish", "content_view"),
              Call("read", "content_view"), Call("create", "puppet_repo"),
              Call("upload_content", "puppet_repo"),
              Chk("available_puppet_modules", "content_view", 0,
                  "results", "gt", 0),
              Call("read", "cvv"), Call("incremental_update", "cvv"),
              Chk("read", "content_view", 0, "version", "eq", 2),
              CallOn("read", "version", 1, "-"),
              CallOn("read", "version", 2, "-"),
              CallOn("read_json", "version", 1, "-"),
              CallOn("read_json", "version", 2, "-")>> \o
            CheckVersions(1)

\* What runs before the body of a test case, or before its data loop: the
\* statements of the test method ahead of the loop, or the setUpClass of its
\* class, which has returned when a test body of the class runs.
Prelude(t) ==
    IF t \in UpdateTests
    THEN <<Step("make", "new_lce", 0, "org", "none", "-", "-", 0)>>
    ELSE IF t \in AKTests THEN AKSetUpClass
    ELSE <<>>

\* The whole program: the body, or one pass of it per item of the data loop.
Prog(t, n, d) ==
    IF t \in UpdateTests
    THEN Prelude(t) \o
         Passes([i \in 1..LoopLen |->
                    IF t = "test_positive_update_1"
                    THEN UpdatePass("new-name", "name", i)
                    ELSE UpdatePass("description", "description", i)],
                LoopLen)
    ELSE IF SubTests(t) = 0 THEN Prelude(t) \o Body(t, n, d)
    ELSE Passes([i \in 1..SubTests(t) |-> InSubTest(Body(t, n, d), i)],
                SubTests(t))

\* What a statement may raise: the API client raises HTTPError when the
\* product answers with an error status, the CLI wrapper raises
\* CLIReturnCodeError on a non-zero return code; either may fail otherwise
\* (no connection, timeout).  Looking at a field raises nothing.
CliOps == {"make", "cli_delete", "cli_update", "info", "paths"}

MayRaise(s) ==
    IF s.op = "get" THEN {"none"}
    ELSE IF s.op \in CliOps THEN {"none", "CLIReturnCodeError", "other"}
    ELSE {"none", "HTTPError", "other"}

\* What the product may answer for the field the statement looks at.
Answers(s) == IF s.rel = "-" THEN {0} ELSE 0..MaxCount

\* assertEqual, assertGreater, assertIn.
Holds(rel, num, val) ==
    CASE rel = "eq" -> val = num
      [] rel = "gt" -> val > num
      [] rel = "in" -> val \in 1..num
      [] OTHER -> TRUE

\* Whether statement s goes through when the call raised r (or returned,
\* "none") and answered val: outside assertRaises the call must return and
\* the assertion hold; inside, the expected exception must be raised.
StepOk(s, r, val) ==
    IF s.exc = "none" THEN r = "none" /\ Holds(s.rel, s.num, val)
    ELSE r = s.exc

Entry(s, r, val) ==
    [op |-> s.op, obj |-> s.obj, idx |-> s.idx, arg |-> s.arg,
     field |-> s.field, iter |-> s.iter, raised |-> r, val |-> val,
     ok |-> StepOk(s, r, val)]

NoTest == [name |-> "none", n |-> 0, d |-> 0]

Program == Prog(atest.name, atest.n, atest.d)

\* Where a statement that did not go through leaves the test case: inside a
\* subTest block the failure is recorded and the loop goes on with the next
\* pass; outside one the test case ends.
NextPass(prog, p) ==
    IF \E q \in (p + 1)..Len(prog) : prog[q].iter > prog[p].iter
    THEN (CHOOSE q \in (p + 1)..Len(prog) :
            /\ prog[q].iter > prog[p].iter
            /\ \A q2 \in (p + 1)..(q - 1) : prog[q2].iter = prog[p].iter) - 1
    ELSE Len(prog)

StartAPITest ==
    /\ astat # "running"
    /\ \E t \in APITests : \E dr \in Draws(t) :
        atest' = [name |-> t, n |-> dr.n, d |-> dr.d]
    /\ apc' = 0
    /\ astat' = "running"
    /\ afails' = 0
    /\ alog' = <<>>
    /\ UNCHANGED <<envVars, uiVars, fixVars>>

APIStep ==
    /\ astat = "running"
    /\ apc < Len(Program)
    /\ LET s == Program[apc + 1]
       IN  \E r \in MayRaise(s), val \in Answers(s) :
            /\ r # "none" => val = 0
            /\ alog' = Append(alog, Entry(s, r, val))
            /\ IF StepOk(s, r, val)
               THEN /\ apc' = apc + 1
                    /\ UNCHANGED <<astat, afails>>
               ELSE IF s.iter > 0
               THEN /\ apc' = NextPass(Program, apc + 1)
                    /\ afails' = afails + 1
                    /\ UNCHANGED astat
               ELSE /\ astat' = "failed"
                    /\ UNCHANGED <<apc, afails>>
    /\ UNCHANGED <<atest, envVars, uiVars, fixVars>>

EndAPITest ==
    /\ astat = "running"
    /\ apc = Len(Program)
    /\ astat' = IF afails = 0 THEN "passed" ELSE "failed"
    /\ UNCHANGED <<atest, apc, afails, alog, envVars, uiVars, fixVars>>

APINext ==
    \/ StartAPITest
    \/ APIStep
    \/ EndAPITest

\* The statements that went through, and what came before one of them in
\* the same pass of the test case.
Went == {i \in 1..Len(alog) : alog[i].ok}

Before(i) == {j \in 1..(i - 1) : alog[j].iter = alog[i].iter}

Returned_(i) == alog[i].ok /\ alog[i].raised = "none"

(* C12: after a delete that went through, a read of the same entity fails: *)
(* in every test case, a read (API) or info (CLI) statement that follows   *)
(* the successful delete of the same entity goes through only if the API   *)
(* read raised HTTPError, the CLI info CLIReturnCodeError.                 *)
C12_ReadAfterDeleteFails ==
    \A i \in Went : \A j \in Before(i) :
        (/\ alog[j].op \in {"delete", "cli_delete"}
         /\ Returned_(j)
         /\ alog[i].op \in {"read", "info"}
         /\ alog[i].obj = alog[j].obj
         /\ alog[i].idx = alog[j].idx)
        => alog[i].raised = (IF alog[i].op = "info"
                             THEN "CLIReturnCodeError" ELSE "HTTPError")

C12_Witness ==
    /\ astat = "passed"
    /\ atest.name = "test_delete_registry"
    /\ \E i \in Went :
        /\ alog[i].op = "read"
        /\ alog[i].iter = LoopLen
        /\ alog[i].raised = "HTTPError"
        /\ \E j \in Before(i) : alog[j].op = "delete" /\ Returned_(j)

(* C13: deleting a content view version that is still in a lifecycle       *)
(* environment (nothing was removed from an environment before) fails with *)
(* HTTPError and changes nothing: where the statements go through, the     *)
(* delete raised HTTPError and the content view has one version before     *)
(* the attempt and the same one version after it.                          *)
C13_DeleteRefusedKeepsVersion ==
    \A i \in Went :
        (/\ alog[i].op = "delete"
         /\ alog[i].obj = "cvv"
         /\ \A j \in Before(i) : alog[j].op # "delete_from_environment")
        => /\ alog[i].raised = "HTTPError"
           /\ \E j \in Before(i) : alog[j].field = "version"
           /\ \A k \in Went :
                alog[k].field = "version" => alog[k].val = 1

C13_Witness ==
    /\ astat = "passed"
    /\ atest.name = "test_delete_version_negative"
    /\ \E i \in Went :
        /\ alog[i].op = "delete"
        /\ alog[i].raised = "HTTPError"
        /\ \E k \in Went : k > i /\ alog[k].field = "version" /\ alog[k].val = 1

\* The statements before statement i that removed the version from an
\* environment, and the number of environments last read for the version.
Removals(i) ==
    {j \in Before(i) : alog[j].op = "delete_from_environment" /\ Returned_(j)}

EnvReads(i) == {j \in Before(i) : alog[j].field = "environment" /\ alog[j].ok}

EnvsSeen(i) ==
    IF EnvReads(i) = {} THEN 0
    ELSE alog[CHOOSE j \in EnvReads(i) : \A k \in EnvReads(i) : k <= j].val

(* C14: once a published version has been removed from every lifecycle     *)
(* environment it was read to be in (Library alone, or Library and the     *)
(* environment it was promoted to, last one first), the delete of the      *)
(* version returns, and where the later statements go through the content  *)
(* view then has zero versions.                                            *)
C14_DeleteAfterRemoval ==
    \A i \in 1..Len(alog) :
        (/\ alog[i].op = "delete"
         /\ alog[i].obj = "cvv"
         /\ EnvsSeen(i) >= 1
         /\ {alog[j].idx : j \in Removals(i)} = 1..EnvsSeen(i))
        => /\ alog[i].ok <=> alog[i].raised = "none"
           /\ \A k \in Went :
                (k > i /\ alog[k].field = "version") => alog[k].val = 0

C14_Witness ==
    /\ astat = "passed"
    /\ atest.name = "test_delete_version_non_default"
    /\ \E i \in Went :
        /\ alog[i].op = "delete"
        /\ EnvsSeen(i) = 2
        /\ Cardinality(Removals(i)) = 2
        /\ alog[i].raised = "none"
        /\ \E k \in Went : k > i /\ alog[k].field = "version" /\ alog[k].val = 0

\* The promotes of the version read at statement i that returned before it,
\* and the lifecycle environments created before it.
Promotes(i) ==
    {j \in Before(i) :
        alog[j].op = "promote" /\ alog[j].obj = alog[i].obj /\ Returned_(j)}

NewLces(i) ==
    {j \in Before(i) : alog[j].op = "create" /\ alog[j].obj = "lce" /\ Returned_(j)}

(* C15: a freshly published version is in exactly one lifecycle            *)
(* environment and each promote to a newly created one adds exactly one:   *)
(* wherever a test reads the environments of a version (plain or           *)
(* composite) after k promotes, each to an environment created for it, and *)
(* goes on, it has read k + 1 environments.                                *)
C15_PromoteAddsOneEnvironment ==
    \A i \in Went :
        alog[i].field = "environment"
        => /\ alog[i].val = Cardinality(Promotes(i)) + 1
           /\ Cardinality({alog[j].idx : j \in Promotes(i)}) =
                Cardinality(Promotes(i))
           /\ \A j \in Promotes(i) : \E c \in NewLces(j) :
                /\ alog[c].idx = alog[j].idx
                /\ alog[j].arg = "lce"

C15_Witness ==
    /\ astat = "passed"
    /\ atest.name = "test_promote_multiple_docker_repo_composite_content_view"
    /\ atest.n = PromoteHi - 1
    /\ \E i \in Went :
        /\ alog[i].field = "environment"
        /\ alog[i].obj = "comp_cvv"
        /\ Cardinality(Promotes(i)) = PromoteHi - 1
        /\ alog[i].val = PromoteHi

(* C16: promotion fails with HTTPError in both negative cases: the promote *)
(* of the default content view version (id 1) to an environment the test   *)
(* created, and its promote to the environment id -1, go through only if   *)
(* the call raised HTTPError.                                              *)
C16_NegativePromoteRaises ==
    /\ \A i \in Went :
        (alog[i].op = "promote" /\ alog[i].obj = "default_cvv")
        => /\ alog[i].raised = "HTTPError"
           /\ alog[i].arg \in {"env", "invalid"}
           /\ alog[i].arg = "env" <=>
                \E j \in Before(i) :
                    alog[j].op = "create" /\ alog[j].obj = "env" /\ Returned_(j)
    /\ (astat = "passed" /\ atest.name \in {"test_negative_promote_1",
                                           "test_negative_promote_2"})
        => \E i \in Went : alog[i].op = "promote" /\ alog[i].raised = "HTTPError"

C16_Witness ==
    /\ astat = "passed"
    /\ atest.name = "test_negative_promote_1"
    /\ \E i \in Went :
        /\ alog[i].op = "promote"
        /\ alog[i].arg = "env"
        /\ alog[i].raised = "HTTPError"

\* The publishes of the content view looked at in statement i that returned
\* before it, and whether only publishes changed its versions until then.
Publishes(i) ==
    {j \in Before(i) :
        alog[j].op = "publish" /\ alog[j].obj = alog[i].obj /\ Returned_(j)}

OnlyPublished(i) ==
    \A j \in Before(i) :
        alog[j].op \in {"delete", "incremental_update"} => ~Returned_(j)

(* C17: a content view (plain or composite) that was never published has   *)
(* no last-published value (0 stands for None) and next_version 1; after n *)
(* consecutive publishes, n from 1 to 5, it has a last-published value,    *)
(* next_version greater than 1 and exactly n versions: every such value a  *)
(* test reads, and goes on, is as stated.                                  *)
C17_PublishCounts ==
    \A i \in Went :
        LET n == Cardinality(Publishes(i))
        IN  OnlyPublished(i)
            => /\ n <= RandHi
               /\ alog[i].field = "last_published"
                    => (alog[i].val = 0 <=> n = 0)
               /\ alog[i].field = "next_version"
                    => IF n = 0 THEN alog[i].val = 1 ELSE alog[i].val > 1
               /\ alog[i].field = "version"
                    => (n >= 1 /\ alog[i].val = n)

C17_Witness ==
    /\ astat = "passed"
    /\ atest.name = "test_publish_multiple_docker_repo_composite_content_view"
    /\ atest.n = RandHi
    /\ \E i \in Went, j \in Went, k \in Went :
        /\ alog[i].obj = "comp_content_view"
        /\ alog[i].field = "version"
        /\ alog[i].val = RandHi
        /\ alog[j].obj = "comp_content_view"
        /\ alog[j].field = "last_published"
        /\ Publishes(j) = {}
        /\ alog[k].obj = "content_view"
        /\ alog[k].field = "last_published"
        /\ Cardinality(Publishes(k)) = 1

\* The incremental updates that returned before statement i.
Updates(i) ==
    {j \in Before(i) : alog[j].op = "incremental_update" /\ Returned_(j)}

(* C18: an incremental update of a version with one puppet module (id 1)   *)
(* gives the content view exactly one version more than it was published   *)
(* and leaves the original version as it was: where the test goes on, the  *)
(* version with the smaller minor number still has no puppet module and    *)
(* the one with the greater has exactly one, the module that was added.    *)
C18_IncrementalUpdateAddsVersion ==
    \A i \in Went :
        Cardinality(Updates(i)) = 1
        => /\ alog[i].field = "version"
                => alog[i].val = Cardinality(Publishes(i)) + 1
           /\ (alog[i].obj = "older" /\ alog[i].field = "puppet_module")
                => alog[i].val = 0
           /\ (alog[i].obj = "newer" /\ alog[i].field = "puppet_module")
                => alog[i].val = 1
           /\ (alog[i].obj = "newer" /\ alog[i].field = "puppet_module_id")
                => alog[i].val = 1
           /\ alog[i].obj = "older" => alog[i].field = "puppet_module"

C18_Witness ==
    /\ astat = "passed"
    /\ atest.name = "test_incremental_update_puppet"
    /\ \E i \in Went, j \in Went, k \in Went :
        /\ alog[i].field = "version" /\ alog[i].val = 2
        /\ Cardinality(Updates(i)) = 1
        /\ alog[j].obj = "older" /\ alog[j].val = 0
        /\ alog[k].obj = "newer" /\ alog[k].field = "puppet_module_id"
        /\ alog[k].val = 1

\* The repositories whose delete returned before statement i.
Deleted(i) ==
    {alog[j].idx : j \in {k \in Before(i) :
        alog[k].op = "delete" /\ alog[k].obj = "repo" /\ Returned_(k)}}

(* C19: deleting one repository chosen at random among the repositories    *)
(* created on different products (repository i on product i) leaves the    *)
(* others untouched: where the test goes on after the delete, the read of  *)
(* the deleted repository raised HTTPError, and the read of every other    *)
(* repository returned and answered the product it was created on.         *)
C19_OthersKeepTheirProduct ==
    \A i \in Went :
        (/\ atest.name = "test_delete_random_docker_repo"
         /\ alog[i].op = "read"
         /\ alog[i].obj = "repo"
         /\ Deleted(i) # {})
        => IF alog[i].idx \in Deleted(i)
           THEN alog[i].raised = "HTTPError"
           ELSE /\ alog[i].raised = "none"
                /\ alog[i].field = "product"
                /\ alog[i].val = alog[i].idx

\* The positive tests that search for what they created or renamed.
SearchingPositives ==
    {"cg_create_positive", "cg_update_positive", "m_positive_create"}

(* C21: after a UI create with a valid name inside an active session, the  *)
(* search for that name returns the located element, and after a UI        *)
(* rename the search for the new name does: in every pass of a test, a     *)
(* search that directly follows a create or an update that returned, and   *)
(* whose assertIsNotNone held, returned the element and not None; the      *)
(* positive create and update tests pass only with such a search after     *)
(* each create and each rename.  (assertTrue(self, ...) in                 *)
(* test_update_medium is no assertion on the search, see C22.)             *)
C21_SearchFindsWhatWasWritten ==
    /\ \A p \in 1..Len(ulog) :
        (/\ ulog[p].kind = "search"
         /\ p >= 2
         /\ p + 1 <= Len(ulog)
         /\ ulog[p - 1].kind \in {"make", "update"}
         /\ ulog[p - 1].ok
         /\ ulog[p + 1].kind = "assert"
         /\ ulog[p + 1].ok)
        => ulog[p].val = "element"
    /\ (upc = "done" /\ verdict = "passed" /\ utest \in SearchingPositives)
        => \A p \in 1..Len(Test(utest).body) :
            Test(utest).body[p] \in {"make", "update"}
            => /\ p + 1 <= Len(ulog)
               /\ ulog[p + 1].kind = "search"
               /\ ulog[p + 1].val = "element"

C21_Witness ==
    /\ upc = "done"
    /\ verdict = "passed"
    /\ utest = "cg_update_positive"
    /\ iter = LoopLen
    /\ Len(ulog) = 6
    /\ ulog[4].kind = "update" /\ ulog[4].ok
    /\ ulog[5].kind = "search" /\ ulog[5].val = "element"
    /\ session = "logged_out"

(* C22: test_update_medium passes only if, after the update call, the      *)
(* search for the new name located the medium; it fails when that search   *)
(* returned None.                                                          *)
C22_UpdateMediumVerified ==
    (upc = "done" /\ utest = "m_update" /\ verdict = "passed")
        => /\ Len(ulog) = 6
           /\ ulog[4].kind = "update"
           /\ ulog[5].kind = "search"
           /\ ulog[5].val = "element"

(* C23: a smart-proxy attribute test passes whenever the server's update   *)
(* response contains some value for the field: test_location and           *)
(* test_organization pass if at least one of the candidate names is among  *)
(* the returned attribute names, and fail only if none is.                 *)
C23_PassesWithOneName ==
    proxyRun.test \in ProxyTests => (proxyRun.passed <=> proxyRun.hits >= 1)

\* A step that is the setUp of a test of TestLifeCycleEnvironment.
LazySetUpStep == frun = Idle(LazyClass) /\ runs' = runs + 1

(* C30: if creating the shared organization fails during a setUp of        *)
(* TestLifeCycleEnvironment, the class fixture stays unset (it is None or  *)
(* an organization that was made, never anything between) and the test     *)
(* body does not run; the setUp of the next test calls the creation        *)
(* again.  Once the fixture is set, no later setUp calls the creation      *)
(* again or replaces the fixture.                                          *)
C30_LazySetUpRetries ==
    /\ [][LazySetUpStep =>
            IF fixture[LazyClass] = 0
            THEN /\ orgCalls'[LazyClass] = orgCalls[LazyClass] + 1
                 /\ \/ /\ orgMade'[LazyClass] = orgMade[LazyClass]
                       /\ fixture'[LazyClass] = 0
                       /\ frun' = Idle(LazyClass)
                    \/ /\ orgMade'[LazyClass] = 1
                       /\ fixture'[LazyClass] = nextOrg
                       /\ frun'.pc = "body"
            ELSE /\ orgCalls'[LazyClass] = orgCalls[LazyClass]
                 /\ orgMade'[LazyClass] = orgMade[LazyClass]
                 /\ fixture'[LazyClass] = fixture[LazyClass]
                 /\ frun'.pc = "body"]_vars
    /\ [][fixture[LazyClass] # 0 =>
            /\ fixture'[LazyClass] = fixture[LazyClass]
            /\ orgCalls'[LazyClass] = orgCalls[LazyClass]]_vars
    /\ []((fixture[LazyClass] = 0) <=> (orgMade[LazyClass] = 0))

C30_Witness ==
    /\ runs = 4
    /\ orgCalls[LazyClass] = 3
    /\ orgMade[LazyClass] = 1
    /\ fixture[LazyClass] # 0
    /\ frun.class = LazyClass
    /\ frun.pc = "body"

\* The calls of a log that edit: a click on an element or a locator other
\* than the menu, a field edit, an association edit.
IsNav(e) == \E i \in 1..Len(NavClicks("environments")) :
                e = NavClicks("environments")[i]
IsEdit(e) ==
    \/ e.act \in {"element_click", "field_update", "send_keys",
                  "configure_entity", "delete_entity"}
    \/ e.act = "click" /\ ~IsNav(e)
IsConfigure(e) == e.act = "configure_entity"

(* C26: when Environment.update cannot find the entity (search(old_name)   *)
(* returns None), it makes no click on an element, no field edit, no       *)
(* association edit and no submit, whatever its other arguments: it makes  *)
(* the calls of the search and nothing more, raises nothing and returns    *)
(* None.                                                                   *)
C26_UpdateOfMissingDoesNothing ==
    (call.op = "update" /\ ~call.present) =>
        /\ log = search(call.name, FALSE).log
        /\ \A i \in 1..Len(log) : ~IsEdit(log[i]) /\ ~IsSubmit(log[i])
        /\ AfterSearch(log) = <<>>
        /\ ret = NoElement
        /\ page = "environments"

C26_Witness ==
    /\ call.op = "update"
    /\ ~call.present
    /\ call.field
    /\ Truthy(call.new_name)
    /\ Truthy(call.orgs)
    /\ Len(call.name) > NAME_THRESHOLD
    /\ Len(log) = Len(NavClicks("environments")) + 1

(* C27: Environment.update invokes the association editor once whenever    *)
(* the entity is found, also when orgs and new_orgs are both None, with    *)
(* the selection mode org_select, False when omitted; Environment.create   *)
(* invokes it only when orgs is a non-empty list, with the selection mode  *)
(* org_select, True when omitted.                                          *)
C27_AssociationEditor ==
    /\ (call.op = "update" /\ call.present) =>
        /\ Len(SelectSeq(log, IsConfigure)) = 1
        /\ SelectSeq(log, IsConfigure)[1] =
              ConfigureEntity(call.orgs, "env_org", "tab_org", call.new_orgs,
                              IF call.org_select.given
                              THEN call.org_select.value ELSE FALSE)
    /\ call.op = "create" =>
        /\ Len(SelectSeq(log, IsConfigure)) =
              (IF ~call.orgs.isNone /\ call.orgs.v # <<>> THEN 1 ELSE 0)
        /\ \A i \in 1..Len(log) :
              IsConfigure(log[i]) =>
                log[i] = ConfigureEntity(call.orgs, "env_org", "tab_org", None,
                              IF call.org_select.given
                              THEN call.org_select.value ELSE TRUE)

C27_Witness ==
    /\ call.op = "update"
    /\ call.present
    /\ call.orgs = None
    /\ call.new_orgs = None
    /\ call.org_select = Omitted
    /\ \E i \in 1..Len(log) : IsConfigure(log[i]) /\ ~log[i].flag

(* C28: Environment.delete hands delete_entity the exact-name locator      *)
(* env.env_name for names of every length, also for names of more than 30  *)
(* characters, for which search and update locate with the filtered-search *)
(* locator; delete makes no call of Environment.search: it does not        *)
(* navigate and does not call search_entity.                               *)
C28_DeleteUsesExactNameLocator ==
    call.op = "delete" =>
        /\ \A i \in 1..Len(log) : ~IsLocate(log[i]) /\ ~IsNav(log[i])
        /\ \E i \in 1..Len(log) :
              log[i].act = "delete_entity" /\ log[i].loc = "env.env_name"
        /\ Len(call.name) > NAME_THRESHOLD =>
              /\ search(call.name, TRUE).ret.locator
                    = "common.select_filtered_entity"
              /\ \A i \in 1..Len(log) :
                    log[i].loc # search(call.name, TRUE).ret.locator
        /\ page = call.from

C28_Witness ==
    /\ call.op = "delete"
    /\ Len(call.name) > NAME_THRESHOLD
    /\ call.from # "environments"
    /\ log[1].act = "delete_entity"
    /\ log[1].loc = "env.env_name"

\* The field of the info answer that an option of the update command sets.
FieldOf(option) == IF option = "new-name" THEN "name" ELSE "description"

\* The updates of the lifecycle environment that returned before statement i.
UpdatesBefore(i) ==
    {j \in 1..(i - 1) : alog[j].op = "cli_update" /\ Returned_(j)}

(* C24: for one lifecycle environment updated repeatedly through the CLI,  *)
(* after each update the info command for the same id returns the name (or *)
(* description) given by the most recent update, for every value of the    *)
(* sequence of updates: every name or description a test reads from info   *)
(* and lets pass is the value of the latest update that returned; update   *)
(* and info are given the id of the one environment made before the loop   *)
(* and the same organization.                                              *)
C24_InfoShowsLatestUpdate ==
    /\ \A i \in Went :
        (alog[i].op = "get" /\ alog[i].field \in {"name", "description"}) =>
            /\ UpdatesBefore(i) # {}
            /\ LET j == CHOOSE k \in UpdatesBefore(i) :
                            \A k2 \in UpdatesBefore(i) : k2 <= k
               IN  /\ FieldOf(alog[j].field) = alog[i].field
                   /\ alog[i].val = alog[j].iter
                   /\ j = i - 2
                   /\ alog[i - 1].op = "info"
                   /\ Returned_(i - 1)
    /\ \A i \in 1..Len(alog) :
        alog[i].op \in {"cli_update", "info"} /\ atest.name \in UpdateTests
        => /\ alog[1].op = "make"
           /\ Returned_(1)
           /\ alog[i].obj = alog[1].obj
           /\ alog[i].idx = alog[1].idx
           /\ alog[i].arg = alog[1].arg

C24_Witness ==
    /\ astat = "passed"
    /\ atest.name = "test_positive_update_1"
    /\ Len(alog) = 1 + 3 * LoopLen
    /\ alog[4].field = "name" /\ alog[4].val = 1
    /\ alog[7].field = "name" /\ alog[7].val = 2

\* The entities the test case created: the create (API) and make (CLI)
\* calls that returned; and whether a delete of the same entity returned
\* later in the same test case.
Creates == {i \in 1..Len(alog) : alog[i].op \in {"create", "make"} /\ Returned_(i)}

DeletedLater(i) ==
    \E j \in (i + 1)..Len(alog) :
        /\ alog[j].op \in {"delete", "cli_delete"}
        /\ Returned_(j)
        /\ alog[j].obj = alog[i].obj
        /\ alog[j].idx = alog[i].idx
        /\ alog[j].iter = alog[i].iter

Leftover == {i \in Creates : ~DeletedLater(i)}

\* The test cases whose only created entity is the one they delete.
DeletesAllItCreates ==
    {"test_delete_docker_compute_resource",
     "test_delete_container_compute_resource", "test_delete_registry",
     "test_positive_delete_1"}

(* C25 (as claimed): every product-side entity a test case creates is      *)
(* destroyed by the end of that same test case: a test case that passed    *)
(* has deleted everything it created.                                      *)
C25_EverythingDestroyed == astat = "passed" => Leftover = {}

(* C25 (amended): a test case destroys an entity only by an explicit       *)
(* delete call in its body, and only the delete tests make one, for the    *)
(* entity whose deletion they check; there is no teardown.  A test case    *)
(* that passed has left on the product every other entity it created: it   *)
(* has left nothing only if it created nothing or is one of the delete     *)
(* tests that create just the entity they delete.                          *)
C25_OnlyDeleteTestsDestroy ==
    /\ \A j \in 1..Len(alog) :
        (alog[j].op \in {"delete", "cli_delete"} /\ Returned_(j)) =>
            \/ \E i \in Creates :
                /\ i < j
                /\ alog[i].obj = alog[j].obj
                /\ alog[i].idx = alog[j].idx
                /\ alog[i].iter = alog[j].iter
            \/ alog[j].obj = "cvv"
    /\ astat = "passed" =>
        ((Leftover = {}) <=>
            (Creates = {} \/ atest.name \in DeletesAllItCreates))

C25_Witness ==
    /\ astat = "passed"
    /\ atest.name = "test_delete_version"
    /\ {alog[i].obj : i \in Leftover} =
          {"org", "gpgkey", "product", "repo", "content_view"}
    /\ \E j \in 1..Len(alog) : alog[j].op = "delete" /\ Returned_(j)

\* The version of a content view, as the tests name it.
VersionOf(cv) == IF cv = "content_view" THEN "cvv" ELSE "comp_cvv"

\* Statement j, before statement i, is a call of op on obj that returned.
Did(j, i, op, obj) ==
    /\ j < i
    /\ alog[j].op = op
    /\ alog[j].obj = obj
    /\ Returned_(j)

(* C29: in every Docker activation-key test, an activation key binding a   *)
(* content view to a lifecycle environment is created only after that      *)
(* content view was published and its version promoted to that             *)
(* environment; a composite content view is given a version as component   *)
(* only after the component content view was published.                    *)
C29_PublishedAndPromotedFirst ==
    /\ \A i \in 1..Len(alog) :
        (alog[i].op = "create" /\ alog[i].obj = "ak") =>
            \E l \in 1..Len(alog), p \in 1..Len(alog), q \in 1..Len(alog) :
                /\ Did(l, q, "create", "lce")
                /\ Did(p, q, "publish", alog[i].arg)
                /\ Did(q, i, "promote", VersionOf(alog[i].arg))
                /\ alog[q].arg = "lce"
    /\ \A i \in 1..Len(alog) :
        (/\ alog[i].op = "update"
         /\ alog[i].obj = "comp_content_view"
         /\ alog[i].field \in {"has_component", "component_id"}) =>
            \E p \in 1..Len(alog) : Did(p, i, "publish", "content_view")
    /\ (astat = "passed" /\ atest.name \in AKTests) =>
            \E i \in Went : alog[i].op = "create" /\ alog[i].obj = "ak"

C29_Witness ==
    /\ astat = "passed"
    /\ atest.name = "test_add_docker_repo_composite_view_to_activation_key"
    /\ alog[Len(alog)].op = "create"
    /\ alog[Len(alog)].obj = "ak"
    /\ alog[Len(alog)].arg = "comp_content_view"
    /\ \E q \in Went : alog[q].op = "promote" /\ alog[q].obj = "comp_cvv"
    /\ \E q \in Went : alog[q].op = "promote" /\ alog[q].obj = "cvv"

----------------------------------------------------------------------------
(* States of the parts a specification leaves alone.                       *)

UIRest ==
    /\ utest = "none"
    /\ upc = "idle"
    /\ iter = 0
    /\ pos = 0
    /\ session = "none"
    /\ last = NoStep
    /\ subFails = 0
    /\ verdict = "none"
    /\ ulog = <<>>

FixRest ==
    /\ fixture = [c \in Classes |-> 0]
    /\ orgCalls = [c \in Classes |-> 0]
    /\ orgMade = [c \in Classes |-> 0]
    /\ nextOrg = 1
    /\ frun = Idle("none")
    /\ seenOrg = [c \in Classes |-> {}]
    /\ entered = {}
    /\ runs = 0
    /\ attrs = NoAttrs
    /\ proxyAttrs = NoProxyAttrs
    /\ localOrg = 0
    /\ seenAttrs = {}
    /\ seenProxy = {}
    /\ proxyRun = NoProxyRun

APIRest ==
    /\ atest = NoTest
    /\ apc = 0
    /\ astat = "idle"
    /\ afails = 0
    /\ alog = <<>>

Init == EnvInit /\ UIRest /\ FixRest /\ APIRest
Spec == Init /\ [][EnvNext]_vars
SpecUI == Init /\ [][UINext]_vars
SpecFix == Init /\ [][FixNext]_vars
SpecAPI == Init /\ [][APINext]_vars

====
